---------------------------- MODULE Spec2Model ----------------------------
(***************************************************************************)
(* Model of Marlin/src/module/configuration_store.cpp (MarlinSettings):    *)
(* the EEPROM record protocol save / _load / validate / load / reset and   *)
(* the UBL mesh slots.                                                     *)
(*                                                                         *)
(* Storage unit.  The medium is an array of byte cells.  Every stored      *)
(* scalar of the record occupies one cell (so sizeof of a field counts its *)
(* scalars); the 16-bit checksum occupies two cells, low byte first, and   *)
(* the version tag four.  One member stands for each group of fields that  *)
(* the code treats alike (for instance planner.settings.acceleration for   *)
(* the five scalars that follow the per-axis arrays).                      *)
(*                                                                         *)
(* Build configuration.  The preprocessor switches of the file are the     *)
(* fields of the record `build`; it only changes when new firmware is      *)
(* flashed.                                                                *)
(***************************************************************************)
EXTENDS Integers, Sequences, FiniteSets, TLC

VARIABLES
  build,         \* the compiled feature configuration
  live,          \* the live settings of the subsystems (planner, mbl, ui, ...)
  medium,        \* persistentStore: the cells written so far (others read 255)
  pc,            \* position of the control loop inside the running operation
  op,            \* the exposed operation in progress ("none" when idle)
  validating,    \* MarlinSettings::validating
  eeprom_error,  \* MarlinSettings::eeprom_error
  eeprom_index,  \* the cursor of the running save() / _load()
  working_crc,   \* the checksum accumulated by the running save() / _load()
  stored_crc,    \* _load(): the checksum read from the header
  open,          \* number of medium transactions currently open
  result,        \* return value of the last finished operation
  obs            \* observations about the current / last operation (history)

vars == << build, live, medium, pc, op, validating, eeprom_error, eeprom_index,
           working_crc, stored_crc, open, result, obs >>

------------------------------------------------------------------------------
(* Program constants *)

EEPROM_OFFSET == 100
XYZ == 3
NAN == 255                       \* the cell pattern of a NaN float
version == << 86, 55, 54, 0 >>   \* EEPROM_VERSION "V76"
ERR == << 69, 82, 82, 0 >>       \* char ver[4] = "ERR"
PlaceholderGrid == 3             \* TERN(MESH_BED_LEVELING, GRID_MAX_POINTS_X, 3)
TailReserved == 129              \* meshes_end = capacity() - 129
ErasedCell == 0                  \* fill value of a cell that was never written

\* Defaults for reset / fill in on load
_DMA == << 3, 3, 1, 9 >>
_DASU == << 8, 8, 4, 5 >>
_DMF == << 5, 5, 2, 6 >>
DEFAULT_MINSEGMENTTIME == 2
DEFAULT_ACCELERATION == 7
DEFAULT_Kp == 4
DEFAULT_Ki == 1
DEFAULT_Kd == 6
DEFAULT_LCD_CONTRAST == 32
CASE_LIGHT_DEFAULT_BRIGHTNESS == 105
PID_dT == 2

------------------------------------------------------------------------------
(* Bounds of the model *)

MaxProfile == 2      \* number of distinct user setting profiles (G-code edits)
MaxReflash == 1      \* number of firmware changes
MaxSlot == 3         \* mesh slot arguments range over -1 .. MaxSlot
MaxMeshOps == 2      \* number of store_mesh() / load_mesh() calls
SmallSizes == 63     \* record sizes 0 .. SmallSizes, and the
LargeSizes == 156    \* LargeSizes largest sizes a uint16_t holds
LiveMeshOps == 1     \* mesh calls in a run that is checked for termination
LiveProfiles == 1    \* edits of the live settings in such a run


------------------------------------------------------------------------------
(* Build configurations (the #if switches the file depends on) *)

Base == [ E |-> 1, lev |-> "NONE", GX |-> 3, GY |-> 3, PIDTEMP |-> TRUE,
          LCD |-> FALSE, AUTO_INIT |-> FALSE, CNC |-> FALSE, LIGHT |-> FALSE,
          Cap |-> 318 ]
BaseE2 == [ Base EXCEPT !.E = 2 ]

\* The Base build with CASE_LIGHT_MENU (HAS_CASE_LIGHT_BRIGHTNESS)
BaseLight == [ Base EXCEPT !.LIGHT = TRUE ]
Mbl32 == [ Base EXCEPT !.lev = "MBL", !.GX = 3, !.GY = 2, !.LCD = TRUE ]
Mbl23 == [ Mbl32 EXCEPT !.GX = 2, !.GY = 3 ]
Mbl22 == [ Mbl32 EXCEPT !.GX = 2, !.GY = 2 ]
Abl32 == [ Base EXCEPT !.lev = "ABL", !.GX = 3, !.GY = 2, !.AUTO_INIT = TRUE,
                       !.CNC = TRUE ]
Abl23 == [ Abl32 EXCEPT !.GX = 2, !.GY = 3 ]
Ubl21 == [ Base EXCEPT !.lev = "UBL", !.GX = 2, !.GY = 1, !.PIDTEMP = FALSE ]

\* The same UBL build on a medium with room for one more mesh
Ubl21Wide == [ Ubl21 EXCEPT !.Cap = 320 ]

\* The same UBL build on a medium that holds the record but has less than
\* meshes_start_index() + 129 cells
Ubl21Tight == [ Ubl21 EXCEPT !.Cap = 290 ]

\* The same UBL build with PIDTEMP
Ubl21Pid == [ Ubl21 EXCEPT !.PIDTEMP = TRUE ]

Builds == { Base, BaseE2, BaseLight, Mbl32, Mbl23, Mbl22, Abl32, Abl23, Ubl21,
            Ubl21Wide, Ubl21Tight, Ubl21Pid }

\* The builds a machine is first flashed with
InitialBuilds == { Base, Mbl32, Abl32, Ubl21 }

\* Firmware changes: the configuration is changed and the firmware rebuilt.
Upgrades == { << Base, BaseE2 >>, << Base, Mbl32 >>, << Mbl32, Mbl23 >>,
              << Mbl32, Mbl22 >>, << Abl32, Abl23 >>, << Base, BaseLight >>,
              << Ubl21, Ubl21Pid >> }

GRID_MAX_POINTS(b) == b.GX * b.GY
XYZE_N(b) == XYZ + b.E

------------------------------------------------------------------------------
(* Sequences of cells *)

Zeros(n) == [ i \in 1..n |-> 0 ]
Fill(n, v) == [ i \in 1..n |-> v ]
Min(a, b) == IF a < b THEN a ELSE b

\* Limit an index to an array size (1-based sequences)
ALIM(i, arr) == Min(i, Len(arr))

\* int8_t <-> cell
ToByte(v) == (v + 256) % 256
ToInt8(c) == IF c >= 128 THEN c - 256 ELSE c

------------------------------------------------------------------------------
(* Checksum accumulator: crc16() of libs/crc16.cpp, CRC-16/XMODEM, 0x1021 *)

RECURSIVE XorN(_, _, _)
XorN(a, b, n) ==
  IF n = 0 THEN 0
  ELSE (((a % 2) + (b % 2)) % 2) + 2 * XorN(a \div 2, b \div 2, n - 1)

Xor4Tab == [ a \in 0..15 |-> [ b \in 0..15 |-> XorN(a, b, 4) ] ]
Xor8(a, b) == 16 * Xor4Tab[a \div 16][b \div 16] + Xor4Tab[a % 16][b % 16]
Xor16(a, b) == 256 * Xor8(a \div 256, b \div 256) + Xor8(a % 256, b % 256)

RECURSIVE CrcShift(_, _)
CrcShift(c, n) ==
  IF n = 0 THEN c
  ELSE CrcShift(IF c >= 32768 THEN Xor16((c * 2) % 65536, 4129) ELSE c * 2, n - 1)

CrcTab == [ i \in 0..255 |-> CrcShift(i * 256, 8) ]

crc16_byte(crc, d) == Xor16((crc % 256) * 256, CrcTab[Xor8(crc \div 256, d)])

\* The bytes data[lo..hi] in order (the range is halved to keep the nesting small)
RECURSIVE crc16_from(_, _, _, _)
crc16_from(crc, data, lo, hi) ==
  IF lo > hi THEN crc
  ELSE IF lo = hi THEN crc16_byte(crc, data[lo])
  ELSE LET mid == (lo + hi) \div 2
           left == crc16_from(crc, data, lo, mid)
       IN IF left >= 0 THEN crc16_from(left, data, mid + 1, hi) ELSE left

crc16(crc, data) == crc16_from(crc, data, 1, Len(data))

------------------------------------------------------------------------------
(* persistentStore *)

Peek(m, a) == IF a \in DOMAIN m THEN m[a] ELSE ErasedCell

\* read_data(pos, value, size): the cells at pos .. pos+size-1
read_data(m, pos, size) == [ i \in 1..size |-> Peek(m, pos + i - 1) ]

\* write_data(pos, value, size)
write_data(m, pos, data) ==
  [ a \in (DOMAIN m) \cup (pos .. pos + Len(data) - 1) |->
      IF a >= pos /\ a < pos + Len(data) THEN data[a - pos + 1] ELSE m[a] ]

------------------------------------------------------------------------------
(* The record layout: SettingsDataStruct *)

HeaderSize == 6                  \* char version[4]; uint16_t crc

MeshCells(b) == IF b.lev = "MBL" THEN GRID_MAX_POINTS(b)
                ELSE PlaceholderGrid * PlaceholderGrid
BilinearCells(b) == IF b.lev = "ABL" THEN GRID_MAX_POINTS(b)
                    ELSE PlaceholderGrid * PlaceholderGrid

\* sizeof(SettingsData)
datasize(b) ==
    HeaderSize
  + 1                            \* esteppers
  + (3 * XYZE_N(b) + 2)          \* planner_settings
  + (1 + 2 + MeshCells(b))       \* mbl_z_offset, mesh_num_x, mesh_num_y, mbl_z_values
  + 3                            \* probe_offset
  + (2 + 2 + 2 + BilinearCells(b)) \* grid_max_x/y, spacing, start, z_values
  + 2                            \* planner_leveling_active, ubl_storage_slot
  + 3                            \* hotendPID
  + 1                            \* lcd_contrast
  + 1                            \* coordinate_system
  + (IF b.LIGHT THEN 1 ELSE 0)    \* #if HAS_CASE_LIGHT_BRIGHTNESS case_light_brightness

------------------------------------------------------------------------------
(* Live settings *)

scalePID_i(i) == IF i = NAN THEN NAN ELSE i * PID_dT
unscalePID_i(i) == IF i = NAN THEN NAN ELSE i \div PID_dT
scalePID_d(d) == IF d = NAN THEN NAN ELSE d * PID_dT
unscalePID_d(d) == IF d = NAN THEN NAN ELSE d \div PID_dT

\* reset_bed_level(): mbl.reset() / bilinear reset / ubl.reset(), leveling off
reset_bed_level(b, l) ==
  [ l EXCEPT !.leveling_active = 0,
             !.mbl_z_offset = 0,
             !.mbl_z = IF b.lev = "MBL" THEN Zeros(GRID_MAX_POINTS(b)) ELSE << >>,
             !.bgs = << 0, 0 >>,
             !.bs = << 0, 0 >>,
             !.z_values = IF b.lev = "ABL" THEN Fill(GRID_MAX_POINTS(b), NAN) ELSE << >>,
             !.storage_slot = -1,
             !.ubl_z = IF b.lev = "UBL" THEN Zeros(GRID_MAX_POINTS(b)) ELSE << >> ]

\* The fields no compiled feature owns (they keep this value for ever)
Blank ==
  [ max_acc |-> << >>, min_seg |-> 0, steps |-> << >>, feed |-> << >>, accel |-> 0,
    mbl_z_offset |-> 0, mbl_z |-> << >>, probe |-> << 0, 0, 0 >>,
    bgs |-> << 0, 0 >>, bs |-> << 0, 0 >>, z_values |-> << >>,
    leveling_active |-> 0, storage_slot |-> -1, ubl_z |-> << >>,
    Kp |-> 0, Ki |-> 0, Kd |-> 0, contrast |-> 0, coord |-> 0, light |-> 0 ]

\* The assignments of reset(), before its postprocess() call.  With
\* CNC_COORDINATE_SYSTEMS reset() only calls select_coordinate_system(-1):
\* gcode.coordinate_system is not assigned.
ResetValues(b, l) ==
  reset_bed_level(b,
    [ l EXCEPT
        !.max_acc = [ i \in 1..XYZE_N(b) |-> _DMA[ALIM(i, _DMA)] ],
        !.steps = [ i \in 1..XYZE_N(b) |-> _DASU[ALIM(i, _DASU)] ],
        !.feed = [ i \in 1..XYZE_N(b) |-> _DMF[ALIM(i, _DMF)] ],
        !.min_seg = DEFAULT_MINSEGMENTTIME,
        !.accel = DEFAULT_ACCELERATION,
        !.probe = << 0, 0, 1 >>,
        !.Kp = IF b.PIDTEMP THEN DEFAULT_Kp ELSE l.Kp,
        !.Ki = IF b.PIDTEMP THEN scalePID_i(DEFAULT_Ki) ELSE l.Ki,
        !.Kd = IF b.PIDTEMP THEN scalePID_d(DEFAULT_Kd) ELSE l.Kd,
        !.contrast = IF b.LCD THEN DEFAULT_LCD_CONTRAST ELSE l.contrast,
        !.light = IF b.LIGHT THEN CASE_LIGHT_DEFAULT_BRIGHTNESS ELSE l.light ])

Defaults(b) == ResetValues(b, Blank)

\* Settings a user makes with G-codes (M201, M92, M203, M204, M421, M851,
\* M420, M301, M250, G29): profile p gives every scalar its own value.
V(p, k) == 8 * p + (k % 8)

Profile(b, p) ==
  [ max_acc |-> [ i \in 1..XYZE_N(b) |-> V(p, i) ],
    min_seg |-> V(p, 6),
    steps |-> [ i \in 1..XYZE_N(b) |-> V(p, 6 + i) ],
    feed |-> [ i \in 1..XYZE_N(b) |-> V(p, 11 + i) ],
    accel |-> V(p, 17),
    mbl_z_offset |-> IF b.lev = "MBL" THEN V(p, 18) ELSE 0,
    mbl_z |-> IF b.lev = "MBL" THEN [ i \in 1..GRID_MAX_POINTS(b) |-> V(p, 18 + i) ]
              ELSE << >>,
    probe |-> << V(p, 26), V(p, 27), V(p, 28) >>,
    bgs |-> IF b.lev = "ABL" THEN << V(p, 29), V(p, 30) >> ELSE << 0, 0 >>,
    bs |-> IF b.lev = "ABL" THEN << V(p, 31), V(p, 32) >> ELSE << 0, 0 >>,
    z_values |-> IF b.lev = "ABL" THEN [ i \in 1..GRID_MAX_POINTS(b) |-> V(p, 18 + i) ]
                 ELSE << >>,
    leveling_active |-> IF b.lev = "NONE" THEN 0 ELSE 1,
    storage_slot |-> IF b.lev = "UBL" THEN p - 2 ELSE -1,
    ubl_z |-> IF b.lev = "UBL" THEN [ i \in 1..GRID_MAX_POINTS(b) |-> V(p, 36 + i) ]
              ELSE << >>,
    Kp |-> IF b.PIDTEMP THEN V(p, 33) ELSE 0,
    Ki |-> IF b.PIDTEMP THEN scalePID_i(V(p, 34)) ELSE 0,
    Kd |-> IF b.PIDTEMP THEN scalePID_d(V(p, 35)) ELSE 0,
    contrast |-> IF b.LCD THEN V(p, 36) ELSE 0,
    coord |-> IF b.CNC THEN V(p, 37) ELSE 0,
    light |-> IF b.LIGHT THEN V(p, 38) ELSE 0 ]

------------------------------------------------------------------------------
(* save(): the field walk.  Each entry is one EEPROM_WRITE of the walk, in  *)
(* the order of the source.                                                *)

SaveFields(b, l) ==
  << << b.E >>,                                         \* esteppers
     l.max_acc \o << l.min_seg >> \o l.steps \o l.feed \o << l.accel >>,
                                                        \* planner.settings
     << IF b.lev = "MBL" THEN l.mbl_z_offset ELSE 0 >>, \* mbl.z_offset / dummyf
     << IF b.lev = "MBL" THEN b.GX ELSE PlaceholderGrid >>,   \* mesh_num_x
     << IF b.lev = "MBL" THEN b.GY ELSE PlaceholderGrid >>,   \* mesh_num_y
     IF b.lev = "MBL" THEN l.mbl_z
     ELSE Zeros(PlaceholderGrid * PlaceholderGrid),     \* mbl.z_values / dummyf
     l.probe,                                           \* zpo
     << IF b.lev = "ABL" THEN b.GX ELSE PlaceholderGrid >>,   \* grid_max_x
     << IF b.lev = "ABL" THEN b.GY ELSE PlaceholderGrid >>,   \* grid_max_y
     l.bgs,                                             \* bilinear_grid_spacing
     l.bs,                                              \* bilinear_start
     IF b.lev = "ABL" THEN l.z_values
     ELSE Zeros(PlaceholderGrid * PlaceholderGrid),     \* z_values / dummyf
     << IF b.lev = "UBL" THEN l.leveling_active ELSE 0 >>,     \* ubl_active
     << ToByte(IF b.lev = "UBL" THEN l.storage_slot ELSE -1) >>, \* storage_slot
     IF b.PIDTEMP THEN << l.Kp, unscalePID_i(l.Ki), unscalePID_d(l.Kd) >>
     ELSE << NAN, NAN, NAN >>,                          \* pidcf
     << IF b.LCD THEN l.contrast ELSE 127 >>,           \* lcd_contrast
     << IF b.CNC THEN l.coord ELSE 0 >>,                \* coordinate_system
     IF b.LIGHT THEN << l.light >> ELSE << >>            \* case_light_brightness
  >>

RECURSIVE Flatten(_, _)
Flatten(fields, k) ==
  IF k > Len(fields) THEN << >> ELSE fields[k] \o Flatten(fields, k + 1)

\* The body of the record as save() streams it
SaveStream(b, l) == Flatten(SaveFields(b, l), 1)

------------------------------------------------------------------------------
(* UBL mesh slots *)

\* Variant: counted from the last valid address, not from the capacity
meshes_end_last(b) == (b.Cap - 1 - TailReserved) % 65536

meshes_end(b) == (b.Cap - TailReserved) % 65536

\* Pad the end of configuration data so it can float up or down a little bit:
\* (datasize() + EEPROM_OFFSET + 32) & 0xFFF8
meshes_start_index_at(size) ==
  LET x == (size + EEPROM_OFFSET + 32) % 65536 IN x - (x % 8)

meshes_start_index(b) == meshes_start_index_at(datasize(b))

\* sizeof(ubl.z_values)
slot_size(b) == GRID_MAX_POINTS(b)

calc_num_meshes(b) ==
  ((meshes_end(b) - meshes_start_index(b)) % 65536) \div slot_size(b)

mesh_slot_offset(b, slot) == meshes_end(b) - (slot + 1) * slot_size(b)

\* Variant: the bound itself is accepted
slot_valid_inclusive(b, slot) == slot >= 0 /\ slot <= calc_num_meshes(b)

\* WITHIN(slot, 0, a - 1) with const int16_t a = calc_num_meshes()
slot_valid(b, slot) ==
  LET a == IF calc_num_meshes(b) >= 32768
           THEN calc_num_meshes(b) - 65536 ELSE calc_num_meshes(b)
  IN slot >= 0 /\ slot <= a - 1

\* ubl.reset(): leveling off, no slot, flat mesh
ubl_reset(b, l) ==
  [ l EXCEPT !.leveling_active = 0, !.storage_slot = -1,
             !.ubl_z = Zeros(GRID_MAX_POINTS(b)) ]

\* ubl.sanity_check(): true when there is an error (no room for one mesh)
ubl_sanity_check(b) == calc_num_meshes(b) < 1

\* Variant: nothing is read
load_mesh_nothing(b, m, l, slot) == l

\* load_mesh(slot): the live mesh after the call
load_mesh(b, m, l, slot) ==
  IF ~slot_valid(b, slot) THEN l
  ELSE [ l EXCEPT !.ubl_z = read_data(m, mesh_slot_offset(b, slot), slot_size(b)) ]

\* store_mesh(slot): the medium after the call
store_mesh(b, m, l, slot) ==
  IF ~slot_valid(b, slot) THEN m
  ELSE write_data(m, mesh_slot_offset(b, slot), l.ubl_z)

------------------------------------------------------------------------------
(* _load(): the field walk (the else branch of the version check).          *)
(* u is the value an uninitialized local holds.                            *)

\* Variant: all four bytes of the tag are compared
VersionMatchesAll(stored_ver) == \A i \in 1..4 : stored_ver[i] = version[i]

\* Version has to match or defaults are used: strncmp(version, stored_ver, 3)
VersionMatches(stored_ver) ==
  \A i \in 1..3 : stored_ver[i] = version[i]

\* ui.set_contrast(lcd_contrast), called in both passes
ContrastAfterRead(b, l, val, cell, u) ==
  IF b.LCD THEN (IF val THEN u ELSE cell) ELSE l.contrast

\* Variant: a read never stores the value
CommitNever(val, old, new) == old

\* A committing read stores the cells, a validating read leaves the variable
Commit(val, old, new) == IF val THEN old ELSE new

\* Variant: the arrays have the size of the running build with one extruder
ReadCountOneE(esteppers) == XYZ + 1

\* uint32_t tmp1[XYZ + esteppers]: the per-axis values the record holds
ReadCount(esteppers) == XYZ + esteppers

\* Variant: the stored values are assigned whatever Kp holds
SetsPidAlways(val, Kp) == ~val

\* if (!validating && !isnan(pidcf.Kp))
SetsPid(val, Kp) == ~val /\ Kp # NAN

LoadWalk(b, m, l, val, u) ==
  LET i0 == EEPROM_OFFSET + HeaderSize
      esteppers == Peek(m, i0)                       \* EEPROM_READ_ALWAYS
      n == ReadCount(esteppers)
      i1 == i0 + 1
      tmp1 == read_data(m, i1, n)
      min_seg == Peek(m, i1 + n)
      tmp2 == read_data(m, i1 + n + 1, n)
      tmp3 == read_data(m, i1 + 2 * n + 1, n)
      accel == Peek(m, i1 + 3 * n + 1)
      i2 == i1 + 3 * n + 2
      \* Mesh (Manual) Bed Leveling
      dummyf == Peek(m, i2)
      mesh_num_x == Peek(m, i2 + 1)                  \* EEPROM_READ_ALWAYS
      mesh_num_y == Peek(m, i2 + 2)                  \* EEPROM_READ_ALWAYS
      mbl_fits == b.lev = "MBL" /\ mesh_num_x = b.GX /\ mesh_num_y = b.GY
      mbl_len == IF mbl_fits THEN GRID_MAX_POINTS(b)
                 ELSE (mesh_num_x * mesh_num_y) % 65536
      mbl_cells == read_data(m, i2 + 3, mbl_len)
      i3 == i2 + 3 + mbl_len
      \* Probe Z Offset
      zpo == read_data(m, i3, 3)
      i4 == i3 + 3
      \* Bilinear Auto Bed Leveling
      grid_max_x == Peek(m, i4)                      \* EEPROM_READ_ALWAYS
      grid_max_y == Peek(m, i4 + 1)                  \* EEPROM_READ_ALWAYS
      abl_fits == b.lev = "ABL" /\ grid_max_x = b.GX /\ grid_max_y = b.GY
      bgs == read_data(m, i4 + 2, 2)
      bs == read_data(m, i4 + 4, 2)
      abl_len == IF abl_fits THEN GRID_MAX_POINTS(b)
                 ELSE (grid_max_x * grid_max_y) % 65536
      abl_cells == read_data(m, i4 + 6, abl_len)
      i5 == i4 + 6 + abl_len
      \* Unified Bed Leveling active state
      ubl_active == Peek(m, i5)
      ubl_slot == Peek(m, i5 + 1)
      i6 == i5 + 2
      \* Hotend PID
      pidcf == read_data(m, i6, 3)
      i7 == i6 + 3
      \* LCD Contrast
      lcd_contrast == Peek(m, i7)
      \* CNC Coordinate System
      coordinate_system == Peek(m, i7 + 1)
      i8 == i7 + 2
      \* Case Light Brightness
      case_light_brightness == Peek(m, i8)
      iEnd == IF b.LIGHT THEN i8 + 1 ELSE i8
      setpid == b.PIDTEMP /\ SetsPid(val, pidcf[1])
      l1 == [ l EXCEPT
        !.max_acc = Commit(val, @, [ i \in 1..XYZE_N(b) |->
                      IF i <= n THEN tmp1[i] ELSE _DMA[ALIM(i, _DMA)] ]),
        !.steps = Commit(val, @, [ i \in 1..XYZE_N(b) |->
                      IF i <= n THEN tmp2[i] ELSE _DASU[ALIM(i, _DASU)] ]),
        !.feed = Commit(val, @, [ i \in 1..XYZE_N(b) |->
                      IF i <= n THEN tmp3[i] ELSE _DMF[ALIM(i, _DMF)] ]),
        !.min_seg = Commit(val, @, min_seg),
        !.accel = Commit(val, @, accel),
        !.mbl_z_offset = IF b.lev = "MBL"
                         THEN Commit(val, @, IF mbl_fits THEN dummyf ELSE 0)
                         ELSE @,
        !.mbl_z = IF b.lev = "MBL"
                  THEN Commit(val, @, IF mbl_fits THEN mbl_cells
                                      ELSE Zeros(GRID_MAX_POINTS(b)))
                  ELSE @,
        !.probe = Commit(val, @, zpo),
        !.leveling_active =
            IF b.lev = "UBL" THEN Commit(val, @, ubl_active)
            ELSE IF abl_fits THEN Commit(val, @, 0)
            ELSE @,
        !.bgs = IF abl_fits THEN Commit(val, @, bgs) ELSE @,
        !.bs = IF abl_fits THEN Commit(val, @, bs) ELSE @,
        !.z_values = IF abl_fits THEN Commit(val, @, abl_cells) ELSE @,
        !.storage_slot = IF b.lev = "UBL" THEN Commit(val, @, ToInt8(ubl_slot)) ELSE @,
        !.Kp = IF setpid THEN pidcf[1] ELSE @,
        !.Ki = IF setpid THEN scalePID_i(pidcf[2]) ELSE @,
        !.Kd = IF setpid THEN scalePID_d(pidcf[3]) ELSE @,
        !.contrast = ContrastAfterRead(b, l, val, lcd_contrast, u),
        !.coord = IF b.CNC THEN Commit(val, @, coordinate_system) ELSE @,
        !.light = IF b.LIGHT THEN Commit(val, @, case_light_brightness) ELSE @ ]
  IN [ index |-> iEnd,
       cursors |-> << i0, i1, i2, i2 + 1, i2 + 2, i2 + 3, i3, i4, i4 + 1, i4 + 2,
                      i4 + 4, i4 + 6, i5, i5 + 1, i6, i7, i7 + 1, i8 >>,
       crc |-> crc16(0, read_data(m, i0, iEnd - i0)),
       live |-> l1,
       after_mesh |-> zpo,
       mesh_dims |-> << mesh_num_x, mesh_num_y >>,
       grid_dims |-> << grid_max_x, grid_max_y >>,
       esteppers |-> esteppers ]

\* Variant: every size is accepted
size_error_never(b, size) == FALSE

\* size_error(const uint16_t size)
size_error(b, size) == (size % 65536) # datasize(b)

------------------------------------------------------------------------------
(* Initial state: first boot of a build on an erased medium *)

Obs0 ==
  [ pre |-> Blank,        \* live settings when the operation started
    S |-> Blank,          \* live settings when the last save() started
    savedBy |-> Base,     \* the build that ran the last save()
    saved |-> FALSE,      \* a save() has finished with success
    stage |-> 0,          \* progress of the sequence save(); reset(); load()
                          \* (1, 2, 3); 4: validate() right after a save()
    pp |-> 0,             \* postprocess() calls made by the operation
    commits |-> 0,        \* committing field walks made by the operation
    vres |-> "none",      \* result of validate() inside load()
    cause |-> "none",     \* why the last _load() pass failed
    wfault |-> "none",    \* the access of save() that the medium failed
    slot |-> -1,          \* the argument of the last store_mesh() / load_mesh()
    meshops |-> 0,        \* store_mesh() / load_mesh() calls so far
    meshfail |-> FALSE,   \* one of them has failed
    sslot |-> -1,         \* the slot the last call, a store_mesh(), has written
    sgrid |-> << >>,      \* and the mesh that was live at that call
    into |-> << >>,       \* the buffer passed to load_mesh(slot, into)
    size |-> 0,           \* the datasize() of a call of meshes_start_index()
    msi |-> 0,            \* and its result
    nested |-> FALSE,     \* access_start() was called inside an open transaction
    stray |-> FALSE,      \* access_finish() was called with no transaction open
    torn |-> FALSE,       \* the last save() was cut off before its header write
    heal |-> 0,           \* 1: a load() has re-saved the defaults; 2: the
                          \* load() that directly follows it
    garbled |-> FALSE,    \* a cell was garbled since the last save()
    cell |-> 0,           \* the address of that cell
    dirty |-> 0,          \* the address of the garbled cell when the operation started
    reflashes |-> 0 ]     \* firmware changes so far

Init ==
  /\ build \in InitialBuilds
  /\ live = Defaults(build)
  /\ medium = << >>
  /\ pc = "Idle"
  /\ op = "none"
  /\ validating = FALSE
  /\ eeprom_error = FALSE
  /\ eeprom_index = 0
  /\ working_crc = 0
  /\ stored_crc = 0
  /\ open = 0
  /\ result = FALSE
  /\ obs = Obs0

Max(a, b) == IF a > b THEN a ELSE b

\* persistentStore.access_start() / access_finish()
access_start(n) == n + 1
access_finish(n) == Max(n - 1, 0)

\* Bookkeeping of an access_start() / access_finish() call made with n
\* transactions open
Starts(n, o) == [ o EXCEPT !.nested = @ \/ n > 0 ]
Finishes(n, o) == [ o EXCEPT !.stray = @ \/ n = 0 ]

\* The observations reset when an exposed operation starts
Begin(o) == [ o EXCEPT !.pre = live, !.pp = 0, !.commits = 0, !.vres = "none",
                       !.cause = "none", !.wfault = "none", !.heal = 0,
                       !.nested = FALSE, !.stray = FALSE,
                       !.sslot = -1, !.sgrid = << >>, !.into = << >>,
                       !.dirty = o.cell ]

\* ... and when the environment acts between two operations
Quiet(o) == [ o EXCEPT !.pre = Blank, !.pp = 0, !.commits = 0, !.vres = "none",
                       !.cause = "none", !.wfault = "none", !.stage = 0,
                       !.heal = 0, !.nested = FALSE, !.stray = FALSE,
                       !.into = << >>,
                       !.dirty = 0 ]

------------------------------------------------------------------------------
(* The environment *)

\* G-code edits of the live settings
SetProfile(p) ==
  /\ pc = "Idle"
  /\ ~obs.garbled
  /\ live' = Profile(build, p)
  /\ op' = "none"
  /\ result' = FALSE
  /\ obs' = Quiet(obs)
  /\ UNCHANGED << build, medium, pc, validating, eeprom_error, eeprom_index,
                  working_crc, stored_crc, open >>

RecordCells(b) == EEPROM_OFFSET .. (EEPROM_OFFSET + datasize(b) - 1)

\* The cells that hold a count or a dimension (esteppers, mesh_num_x,
\* mesh_num_y, grid_max_x, grid_max_y)
CountCells(b) ==
  LET i2 == EEPROM_OFFSET + HeaderSize + 1 + 3 * XYZE_N(b) + 2
      i4 == i2 + 3 + MeshCells(b) + 3
  IN { EEPROM_OFFSET + HeaderSize, i2 + 1, i2 + 2, i4, i4 + 1 }

\* A changed cell is one more than before; a count may also be one less
CorruptDeltas == { 1, 255 }

\* A run ends with the first operation on a record with a changed cell
Fresh == ~obs.garbled \/ op = "none"

\* One cell of the stored record changes to a different value (once per
\* saved record, after the last edit of the live settings)
Corrupt(a, d) ==
  /\ pc = "Idle"
  /\ op = "none"
  /\ obs.saved
  /\ ~obs.garbled
  /\ obs.reflashes = 0
  /\ d = 1 \/ a \in CountCells(build)
  /\ medium' = write_data(medium, a, << (Peek(medium, a) + d) % 256 >>)
  /\ op' = "none"
  /\ result' = FALSE
  /\ obs' = [ Quiet(obs) EXCEPT !.garbled = TRUE, !.cell = a,
                                !.sslot = -1, !.sgrid = << >> ]
  /\ UNCHANGED << build, live, pc, validating, eeprom_error, eeprom_index,
                  working_crc, stored_crc, open >>

\* The cells an unreliable medium may change between the two passes of load():
\* a version byte, a checksum byte, the esteppers count, the first body value
GlitchCells == { EEPROM_OFFSET, EEPROM_OFFSET + 4, EEPROM_OFFSET + HeaderSize,
                 EEPROM_OFFSET + HeaderSize + 1 }

\* A cell changes after validate() has accepted the record
Glitch(a, d) ==
  /\ pc = "LoadStart"
  /\ op = "load"
  /\ ~validating
  /\ ~obs.garbled
  /\ obs.reflashes = 0
  /\ d = 1
  /\ medium' = write_data(medium, a, << (Peek(medium, a) + d) % 256 >>)
  /\ obs' = [ obs EXCEPT !.stage = 0, !.heal = 0, !.garbled = TRUE, !.cell = a ]
  /\ UNCHANGED << build, live, pc, op, validating, eeprom_error, eeprom_index,
                  working_crc, stored_crc, open, result >>

\* New firmware is flashed: the statics are initialized again
Reflash(b2) ==
  /\ pc = "Idle"
  /\ obs.reflashes < MaxReflash
  /\ ~obs.garbled
  /\ << build, b2 >> \in Upgrades
  /\ build' = b2
  /\ live' = Defaults(b2)
  /\ validating' = FALSE
  /\ eeprom_error' = FALSE
  /\ op' = "none"
  /\ result' = FALSE
  /\ obs' = [ Quiet(obs) EXCEPT !.reflashes = @ + 1,
                                !.sslot = -1, !.sgrid = << >> ]
  /\ UNCHANGED << medium, pc, eeprom_index, working_crc, stored_crc, open >>

------------------------------------------------------------------------------
(* reset() *)

Reset ==
  /\ pc = "Idle"
  /\ Fresh
  /\ op' = "reset"
  /\ live' = ResetValues(build, live)
  /\ pc' = "ResetPost"
  /\ obs' = [ Begin(obs) EXCEPT !.stage = IF obs.stage = 1 /\ obs.saved THEN 2 ELSE 0 ]
  /\ result' = FALSE
  /\ UNCHANGED << build, medium, validating, eeprom_error, eeprom_index,
                  working_crc, stored_crc, open >>

\* Variant: load() returns after a failed validate() without reset()
FallbackKeepsLive ==
  /\ pc = "Fallback"
  /\ pc' = "ResetPost"
  /\ UNCHANGED << build, live, medium, op, validating, eeprom_error, eeprom_index,
                  working_crc, stored_crc, open, result, obs >>

\* load(): reset() after a failed validate()
Fallback ==
  /\ pc = "Fallback"
  /\ live' = ResetValues(build, live)
  /\ pc' = "ResetPost"
  /\ UNCHANGED << build, medium, op, validating, eeprom_error, eeprom_index,
                  working_crc, stored_crc, open, result, obs >>

\* Variant: load() never saves after its reset()
SavesAfterResetNever(b) == FALSE

\* load(): #if ENABLED(EEPROM_AUTO_INIT) (void)save();
SavesAfterReset(b) == b.AUTO_INIT

\* Variant: reset() returns without its postprocess() call
ResetPostSkipped ==
  /\ pc = "ResetPost"
  /\ IF op = "load" /\ SavesAfterReset(build)
     THEN pc' = "SaveStart" /\ UNCHANGED result
     ELSE pc' = "Idle" /\ result' = FALSE
  /\ UNCHANGED << build, live, medium, op, validating, eeprom_error, eeprom_index,
                  working_crc, stored_crc, open, obs >>

\* The postprocess() call that ends reset(), and the return to the caller
ResetPost ==
  /\ pc = "ResetPost"
  /\ obs' = [ obs EXCEPT !.pp = @ + 1 ]
  /\ IF op = "load" /\ SavesAfterReset(build)
     THEN pc' = "SaveStart" /\ UNCHANGED result
     ELSE pc' = "Idle" /\ result' = FALSE
  /\ UNCHANGED << build, live, medium, op, validating, eeprom_error, eeprom_index,
                  working_crc, stored_crc, open >>

------------------------------------------------------------------------------
(* save() *)

\* (M500 is not issued over a record with a changed cell)
Save ==
  /\ pc = "Idle"
  /\ ~obs.garbled
  /\ op' = "save"
  /\ pc' = "SaveStart"
  /\ obs' = [ Begin(obs) EXCEPT !.stage = 1 ]
  /\ result' = FALSE
  /\ UNCHANGED << build, live, medium, validating, eeprom_error, eeprom_index,
                  working_crc, stored_crc, open >>

\* Variant: the cursor stays where it is
EEPROM_SKIP_none(index, size) == index

\* EEPROM_SKIP(VAR): eeprom_index += sizeof(VAR)
EEPROM_SKIP(index, size) == index + size

\* Variant: the version slot is skipped, not written (FLASH_EEPROM_EMULATION)
SaveStartSkipsTag ==
  /\ pc = "SaveStart"
  /\ open' = access_start(open)
  /\ eeprom_error' = FALSE
  /\ eeprom_index' = EEPROM_SKIP(EEPROM_SKIP(EEPROM_OFFSET, Len(ERR)), 2)
  /\ working_crc' = 0
  /\ pc' = "SaveWalk"
  /\ obs' = Starts(open, [ obs EXCEPT !.S = live, !.savedBy = build,
                                      !.saved = FALSE ])
  /\ UNCHANGED << build, live, medium, op, validating, stored_crc, result >>

\* EEPROM_START ... working_crc = 0
SaveStart ==
  /\ pc = "SaveStart"
  /\ open' = access_start(open)
  /\ eeprom_error' = FALSE
  /\ medium' = write_data(medium, EEPROM_OFFSET, ERR)
  /\ eeprom_index' = EEPROM_SKIP(EEPROM_OFFSET + Len(ERR), 2)
  /\ working_crc' = 0
  /\ pc' = "SaveWalk"
  /\ obs' = Starts(open, [ obs EXCEPT !.S = live, !.savedBy = build,
                                      !.saved = FALSE ])
  /\ UNCHANGED << build, live, op, validating, stored_crc, result >>

\* Variant: the PID values are unscaled in place before they are written
SaveWalkUnscalesLive ==
  /\ pc = "SaveWalk"
  /\ LET data == SaveStream(build, live) IN
       /\ medium' = write_data(medium, eeprom_index, data)
       /\ working_crc' = crc16(working_crc, data)
       /\ eeprom_index' = eeprom_index + Len(data)
  /\ live' = [ live EXCEPT !.Ki = unscalePID_i(@), !.Kd = unscalePID_d(@) ]
  /\ pc' = "SaveFinish"
  /\ UNCHANGED << build, op, validating, eeprom_error, stored_crc, open,
                  result, obs >>

\* The EEPROM_WRITEs of the field walk
SaveWalk ==
  /\ pc = "SaveWalk"
  /\ LET data == SaveStream(build, live) IN
       /\ medium' = write_data(medium, eeprom_index, data)
       /\ working_crc' = crc16(working_crc, data)
       /\ eeprom_index' = eeprom_index + Len(data)
  /\ pc' = "SaveFinish"
  /\ UNCHANGED << build, live, op, validating, eeprom_error, stored_crc, open,
                  result, obs >>

\* Variant: high byte first
Bytes16HighFirst(x) == << x \div 256, x % 256 >>

\* Bytes of a uint16_t, low byte first
Bytes16(x) == << x % 256, x \div 256 >>
Word16(c) == c[1] + 256 * c[2]

\* Variant: the checksum is taken after EEPROM_WRITE(version) has folded the
\* tag into working_crc
FinalCrcAfterTag(w) == crc16(w, version)

\* const uint16_t final_crc = working_crc, before the header is written
FinalCrc(w) == w

\* Variant: load() returns what its save() returned
SaveResultKept(o, err) == ~err

\* What the caller of save() returns: save() itself returns !eeprom_error,
\* load() casts the result of its save() to void and returns false
SaveResult(o, err) == IF o = "save" THEN ~err ELSE FALSE

\* Validate CRC and Data Size ... return !eeprom_error
SaveFinish ==
  /\ pc = "SaveFinish"
  /\ LET eeprom_size == (eeprom_index - EEPROM_OFFSET) % 65536
         final_crc == FinalCrc(working_crc)
         err == IF eeprom_error THEN TRUE ELSE size_error(build, eeprom_size)
     IN
       /\ medium' = IF eeprom_error THEN medium
                    ELSE write_data(medium, EEPROM_OFFSET, version \o Bytes16(final_crc))
       /\ eeprom_error' = err
       /\ result' = SaveResult(op, err)
       /\ obs' = Finishes(open,
                   [ obs EXCEPT !.saved = ~err, !.garbled = FALSE, !.cell = 0,
                                !.torn = FALSE,
                                !.stage = IF op = "save" /\ ~err THEN @ ELSE 0,
                                !.heal = IF op = "load" /\ ~err /\ obs.wfault = "none"
                                         THEN 1 ELSE 0 ])
  /\ open' = access_finish(open)
  /\ eeprom_index' = 0
  /\ working_crc' = 0
  /\ pc' = "Idle"
  /\ UNCHANGED << build, live, op, validating, stored_crc >>

------------------------------------------------------------------------------
(* _load(), validate(), load() *)

Validate ==
  /\ pc = "Idle"
  /\ Fresh
  /\ op' = "validate"
  /\ validating' = TRUE
  /\ pc' = "LoadStart"
  /\ obs' = [ Begin(obs) EXCEPT
               !.stage = IF obs.stage = 1 /\ op = "save" /\ result THEN 4 ELSE 0 ]
  /\ result' = FALSE
  /\ UNCHANGED << build, live, medium, eeprom_error, eeprom_index, working_crc,
                  stored_crc, open >>

Load ==
  /\ pc = "Idle"
  /\ Fresh
  /\ op' = "load"
  /\ validating' = TRUE
  /\ pc' = "LoadStart"
  /\ obs' = [ Begin(obs) EXCEPT !.stage = IF obs.stage = 2 THEN 3 ELSE 0,
                                !.heal = IF obs.heal = 1 THEN 2 ELSE 0 ]
  /\ result' = FALSE
  /\ UNCHANGED << build, live, medium, eeprom_error, eeprom_index, working_crc,
                  stored_crc, open >>

\* EEPROM_START, the header reads and the version check
LoadStart ==
  /\ pc = "LoadStart"
  /\ open' = access_start(open)
  /\ LET stored_ver == read_data(medium, EEPROM_OFFSET, 4) IN
       /\ stored_crc' = Word16(read_data(medium, EEPROM_OFFSET + 4, 2))
       /\ IF VersionMatches(stored_ver)
          THEN /\ pc' = "LoadWalk"
               /\ obs' = Starts(open, obs)
               /\ UNCHANGED eeprom_error
          ELSE /\ pc' = "LoadFinish"
               /\ eeprom_error' = TRUE
               /\ obs' = Starts(open, [ obs EXCEPT !.cause = "version" ])
  /\ eeprom_index' = EEPROM_OFFSET + HeaderSize
  /\ working_crc' = 0
  /\ UNCHANGED << build, live, medium, op, validating, result >>

\* What an uninitialized int16_t local may hold
Indeterminate(b, l, val) == IF b.LCD /\ val THEN { l.contrast, 99 } ELSE { 0 }

\* The checksum after a walk: a read_data at or beyond capacity() returns
\* bytes this file does not determine
WalkCrc(b, r) ==
  IF r.index > b.Cap THEN { r.crc, (r.crc + 1) % 65536 } ELSE { r.crc }

\* The EEPROM_READs of the field walk
LoadFields ==
  /\ pc = "LoadWalk"
  /\ \E u \in Indeterminate(build, live, validating) :
       LET r == LoadWalk(build, medium, live, validating, u) IN
         /\ live' = r.live
         /\ eeprom_index' = r.index
         /\ working_crc' \in WalkCrc(build, r)
  /\ pc' = "LoadCheck"
  /\ obs' = [ obs EXCEPT !.commits = IF validating THEN @ ELSE @ + 1 ]
  /\ UNCHANGED << build, medium, op, validating, eeprom_error, stored_crc, open,
                  result >>

\* Variant: the checksums are not compared
CrcIgnored(w, s) == FALSE

\* else if (working_crc != stored_crc)
CrcMismatch(w, s) == w # s

\* Variant: the hook does not look at the validating flag
RunsPostprocessUnguarded(val, err) == ~err

\* if (!validating && !eeprom_error) postprocess();
RunsPostprocess(val, err) == ~val /\ ~err

\* The size and CRC checks, postprocess() and the UBL mesh load
LoadCheck ==
  /\ pc = "LoadCheck"
  /\ LET szerr == size_error(build, eeprom_index - EEPROM_OFFSET)
         err1 == IF szerr THEN TRUE ELSE CrcMismatch(working_crc, stored_crc)
         ubl == build.lev = "UBL" /\ ~validating
         insane == ubl /\ ubl_sanity_check(build)
         l1 == IF insane THEN ubl_reset(build, live) ELSE live
         l2 == IF ~ubl THEN live
               ELSE IF l1.storage_slot >= 0
                    THEN load_mesh(build, medium, l1, l1.storage_slot)
                    ELSE ubl_reset(build, l1)
         extra == ubl /\ l1.storage_slot >= 0 /\ slot_valid(build, l1.storage_slot)
     IN
       /\ eeprom_error' = (err1 \/ insane)
       /\ live' = l2
       /\ open' = IF extra THEN access_finish(access_finish(access_start(open)))
                  ELSE open
       /\ LET o1 == [ obs EXCEPT
                       !.pp = IF RunsPostprocess(validating, err1) THEN @ + 1 ELSE @,
                       !.cause = IF szerr THEN "size" ELSE IF err1 THEN "crc"
                                 ELSE IF insane THEN "ubl" ELSE "none" ]
          IN obs' = IF extra
                    THEN Finishes(access_finish(access_start(open)),
                           Finishes(access_start(open), Starts(open, o1)))
                    ELSE o1
  /\ pc' = "LoadFinish"
  /\ UNCHANGED << build, medium, op, validating, eeprom_index, working_crc,
                  stored_crc, result >>

\* Variant: the committing pass runs whatever validate() returned
CommitsAlways(success) == TRUE

\* load(): a committing pass follows a successful validate()
CommitsAfter(success) == success

\* Variant: validate() returns without clearing the flag
ValidatingKept(v) == v

\* validate(): validating = false after _load() has returned
ValidatingAfter(v) == FALSE

\* Variant: load() calls validate() again until it accepts the record
LoadFinishRetries ==
  /\ pc = "LoadFinish"
  /\ open' = access_finish(open)
  /\ eeprom_index' = 0
  /\ working_crc' = 0
  /\ stored_crc' = 0
  /\ LET success == ~eeprom_error IN
       IF validating /\ op = "load"
       THEN /\ pc' = "LoadStart"
            /\ validating' = ~CommitsAfter(success)
            /\ obs' = Finishes(open, [ obs EXCEPT
                                         !.vres = IF success THEN "ok" ELSE "fail" ])
            /\ UNCHANGED result
       ELSE /\ pc' = "Idle"
            /\ validating' = FALSE
            /\ result' = success
            /\ obs' = Finishes(open, obs)
  /\ UNCHANGED << build, live, medium, op, eeprom_error >>

\* EEPROM_FINISH, return !eeprom_error, and the caller's next statement
LoadFinish ==
  /\ pc = "LoadFinish"
  /\ open' = access_finish(open)
  /\ eeprom_index' = 0
  /\ working_crc' = 0
  /\ stored_crc' = 0
  /\ validating' = ValidatingAfter(validating)
  /\ LET success == ~eeprom_error IN
       IF validating /\ op = "load"
       THEN /\ pc' = IF CommitsAfter(success) THEN "LoadStart" ELSE "Fallback"
            /\ obs' = Finishes(open, [ obs EXCEPT
                                         !.vres = IF success THEN "ok" ELSE "fail" ])
            /\ UNCHANGED result
       ELSE /\ pc' = "Idle"
            /\ result' = success
            /\ obs' = Finishes(open, obs)
  /\ UNCHANGED << build, live, medium, op, eeprom_error >>

------------------------------------------------------------------------------
(* An unreliable medium: access_start() and write_data() can fail *)

\* Variant: the "ERR" tag is written before the transaction is found closed
SaveNoMediumAfterTag ==
  /\ pc = "SaveStart"
  /\ medium' = write_data(medium, EEPROM_OFFSET, ERR)
  /\ pc' = "Idle"
  /\ result' = FALSE
  /\ obs' = [ obs EXCEPT !.wfault = "open", !.stage = 0 ]
  /\ UNCHANGED << build, live, op, validating, eeprom_error, eeprom_index,
                  working_crc, stored_crc, open >>

\* save(): EEPROM_START with access_start() returning false: return false
SaveNoMedium ==
  /\ pc = "SaveStart"
  /\ pc' = "Idle"
  /\ result' = FALSE
  /\ obs' = [ obs EXCEPT !.wfault = "open", !.stage = 0 ]
  /\ UNCHANGED << build, live, medium, op, validating, eeprom_error, eeprom_index,
                  working_crc, stored_crc, open >>

\* _load(): EEPROM_START with access_start() returning false: return false,
\* and the next statement of validate() / load()
LoadNoMedium ==
  /\ pc = "LoadStart"
  /\ validating' = FALSE
  /\ IF validating /\ op = "load"
     THEN /\ pc' = "Fallback"
          /\ obs' = [ obs EXCEPT !.vres = "fail", !.cause = "nomedium", !.heal = 0 ]
          /\ UNCHANGED result
     ELSE /\ pc' = "Idle"
          /\ result' = FALSE
          /\ obs' = [ obs EXCEPT !.cause = "nomedium", !.stage = 0, !.heal = 0 ]
  /\ UNCHANGED << build, live, medium, op, eeprom_error, eeprom_index,
                  working_crc, stored_crc, open >>

\* The fields whose write may fail
FaultFields == { 7 }

\* The stream when the write of field j fails at its first byte: write_data
\* returns true (not looked at by EEPROM_WRITE) and leaves the cursor and the
\* checksum where they were
RECURSIVE FlattenBut(_, _, _)
FlattenBut(fields, j, k) ==
  IF k > Len(fields) THEN << >>
  ELSE (IF k = j THEN << >> ELSE fields[k]) \o FlattenBut(fields, j, k + 1)

\* The EEPROM_WRITEs of the field walk, one of them failing
SaveWalkFault(j) ==
  /\ pc = "SaveWalk"
  /\ LET data == FlattenBut(SaveFields(build, live), j, 1) IN
       /\ medium' = write_data(medium, eeprom_index, data)
       /\ working_crc' = crc16(working_crc, data)
       /\ eeprom_index' = eeprom_index + Len(data)
  /\ pc' = "SaveFinish"
  /\ obs' = [ obs EXCEPT !.wfault = "body" ]
  /\ UNCHANGED << build, live, op, validating, eeprom_error, stored_crc, open,
                  result >>

\* Validate CRC and Data Size, with EEPROM_WRITE(final_crc) failing
SaveFinishFault ==
  /\ pc = "SaveFinish"
  /\ obs.wfault = "none"
  /\ LET eeprom_size == (eeprom_index - EEPROM_OFFSET) % 65536
         err == IF eeprom_error THEN TRUE ELSE size_error(build, eeprom_size)
     IN
       /\ medium' = IF eeprom_error THEN medium
                    ELSE write_data(medium, EEPROM_OFFSET, version)
       /\ eeprom_error' = err
       /\ result' = SaveResult(op, err)
       /\ obs' = Finishes(open,
                   [ obs EXCEPT !.saved = ~err, !.garbled = FALSE, !.cell = 0,
                                !.wfault = "header", !.stage = 0, !.heal = 0,
                                !.torn = FALSE ])
  /\ open' = access_finish(open)
  /\ eeprom_index' = 0
  /\ working_crc' = 0
  /\ pc' = "Idle"
  /\ UNCHANGED << build, live, op, validating, stored_crc >>

------------------------------------------------------------------------------
(* Power loss during save() *)

\* The numbers of body cells save() has written when the power fails: none,
\* some, all (the header write is still to come)
CutPoints(b) == { 0, 5, datasize(b) - HeaderSize }

\* The field walk of save() stops after k cells; the machine restarts with
\* its statics initialized again
SaveCut(k) ==
  /\ pc = "SaveWalk"
  /\ medium' = write_data(medium, eeprom_index,
                          SubSeq(SaveStream(build, live), 1, k))
  /\ live' = Defaults(build)
  /\ pc' = "Idle"
  /\ op' = "none"
  /\ validating' = FALSE
  /\ eeprom_error' = FALSE
  /\ eeprom_index' = 0
  /\ working_crc' = 0
  /\ open' = 0
  /\ result' = FALSE
  /\ obs' = [ Quiet(obs) EXCEPT !.torn = TRUE ]
  /\ UNCHANGED << build, stored_crc >>

------------------------------------------------------------------------------
(* The UBL mesh slots: store_mesh() and load_mesh() (G29 S / G29 L)         *)

\* The cells of slot i
SlotCells(b, i) ==
  mesh_slot_offset(b, i) .. (mesh_slot_offset(b, i) + slot_size(b) - 1)

StoreMesh(slot) ==
  /\ pc = "Idle"
  /\ ~obs.garbled
  /\ obs.meshops < MaxMeshOps
  /\ op' = "store_mesh"
  /\ medium' = store_mesh(build, medium, live, slot)
  /\ open' = IF slot_valid(build, slot) THEN access_finish(access_start(open))
             ELSE open
  /\ result' = FALSE
  /\ LET o1 == [ Begin(obs) EXCEPT
                  !.slot = slot, !.stage = 0, !.meshops = @ + 1,
                  !.meshfail = @ \/ ~slot_valid(build, slot),
                  !.sslot = IF slot_valid(build, slot) THEN slot ELSE -1,
                  !.sgrid = IF slot_valid(build, slot) THEN live.ubl_z ELSE << >>,
                  !.cause = IF slot_valid(build, slot) THEN "none" ELSE "slot" ]
     IN obs' = IF slot_valid(build, slot)
               THEN Finishes(access_start(open), Starts(open, o1))
               ELSE o1
  /\ UNCHANGED << build, live, pc, validating, eeprom_error, eeprom_index,
                  working_crc, stored_crc >>

\* store_mesh() with write_data failing after k cells ("?Unable to save mesh
\* data.")
StoreMeshFault(slot, k) ==
  /\ pc = "Idle"
  /\ ~obs.garbled
  /\ obs.meshops < MaxMeshOps
  /\ slot_valid(build, slot)
  /\ op' = "store_mesh"
  /\ medium' = write_data(medium, mesh_slot_offset(build, slot),
                          SubSeq(live.ubl_z, 1, k))
  /\ open' = access_finish(access_start(open))
  /\ result' = FALSE
  /\ obs' = Finishes(access_start(open), Starts(open,
               [ Begin(obs) EXCEPT !.slot = slot, !.stage = 0, !.meshops = @ + 1,
                                   !.meshfail = TRUE, !.cause = "write" ]))
  /\ UNCHANGED << build, live, pc, validating, eeprom_error, eeprom_index,
                  working_crc, stored_crc >>

\* load_mesh(slot) into ubl.z_values; a trailing EEPROM_FINISH follows the
\* access_finish() of the read
LoadMesh(slot) ==
  /\ pc = "Idle"
  /\ Fresh
  /\ obs.meshops < MaxMeshOps
  /\ op' = "load_mesh"
  /\ live' = load_mesh(build, medium, live, slot)
  /\ open' = IF slot_valid(build, slot)
             THEN access_finish(access_finish(access_start(open)))
             ELSE open
  /\ result' = FALSE
  /\ LET o1 == [ Begin(obs) EXCEPT
                  !.slot = slot, !.stage = 0, !.meshops = @ + 1,
                  !.meshfail = @ \/ ~slot_valid(build, slot),
                  !.sslot = obs.sslot, !.sgrid = obs.sgrid,
                  !.cause = IF slot_valid(build, slot) THEN "none" ELSE "slot" ]
     IN obs' = IF slot_valid(build, slot)
               THEN Finishes(access_finish(access_start(open)),
                      Finishes(access_start(open), Starts(open, o1)))
               ELSE o1
  /\ UNCHANGED << build, medium, pc, validating, eeprom_error, eeprom_index,
                  working_crc, stored_crc >>

\* The caller's buffer before the call (G26 and the mesh tools pass a
\* zeroed scratch array)
IntoBuffer(b) == Zeros(GRID_MAX_POINTS(b))

\* load_mesh(slot, into) with a destination: dest = (uint8_t*)into
LoadMeshInto(slot) ==
  /\ pc = "Idle"
  /\ Fresh
  /\ obs.meshops < MaxMeshOps
  /\ op' = "load_mesh"
  /\ open' = IF slot_valid(build, slot)
             THEN access_finish(access_finish(access_start(open)))
             ELSE open
  /\ result' = FALSE
  /\ LET o1 == [ Begin(obs) EXCEPT
                  !.slot = slot, !.stage = 0, !.meshops = @ + 1,
                  !.meshfail = @ \/ ~slot_valid(build, slot),
                  !.sslot = obs.sslot, !.sgrid = obs.sgrid,
                  !.into = load_mesh(build, medium,
                                     [ live EXCEPT !.ubl_z = IntoBuffer(build) ],
                                     slot).ubl_z,
                  !.cause = IF slot_valid(build, slot) THEN "none" ELSE "slot" ]
     IN obs' = IF slot_valid(build, slot)
               THEN Finishes(access_finish(access_start(open)),
                      Finishes(access_start(open), Starts(open, o1)))
               ELSE o1
  /\ UNCHANGED << build, live, medium, pc, validating, eeprom_error, eeprom_index,
                  working_crc, stored_crc >>

\* One cell of the slot that store_mesh() has just written changes
CorruptSlot(a) ==
  /\ pc = "Idle"
  /\ op = "store_mesh"
  /\ obs.cause = "none"
  /\ ~obs.garbled
  /\ a \in SlotCells(build, obs.slot)
  /\ medium' = write_data(medium, a, << (Peek(medium, a) + 1) % 256 >>)
  /\ op' = "none"
  /\ result' = FALSE
  /\ obs' = [ Quiet(obs) EXCEPT !.garbled = TRUE, !.cell = a,
                                !.sslot = -1, !.sgrid = << >> ]
  /\ UNCHANGED << build, live, pc, validating, eeprom_error, eeprom_index,
                  working_crc, stored_crc, open >>

------------------------------------------------------------------------------

Next ==
  \/ \E p \in 1..MaxProfile : SetProfile(p)
  \/ \E a \in RecordCells(build), d \in CorruptDeltas : Corrupt(a, d)
  \/ \E a \in GlitchCells, d \in CorruptDeltas : Glitch(a, d)
  \/ \E b2 \in Builds : Reflash(b2)
  \/ Reset
  \/ Fallback
  \/ ResetPost
  \/ Save
  \/ SaveStart
  \/ SaveWalk
  \/ SaveFinish
  \/ Validate
  \/ Load
  \/ LoadStart
  \/ LoadFields
  \/ LoadCheck
  \/ LoadFinish

Spec == Init /\ [][Next]_vars

\* The operations over a medium that can be unavailable and can fail a write
FaultNext ==
  \/ \E p \in 1..MaxProfile : SetProfile(p)
  \/ Reset
  \/ Fallback
  \/ ResetPost
  \/ Save
  \/ SaveStart
  \/ SaveNoMedium
  \/ SaveWalk
  \/ \E j \in FaultFields : SaveWalkFault(j)
  \/ SaveFinish
  \/ SaveFinishFault
  \/ Validate
  \/ Load
  \/ LoadStart
  \/ LoadNoMedium
  \/ LoadFields
  \/ LoadCheck
  \/ LoadFinish

FaultSpec == Init /\ [][FaultNext]_vars

\* The operations on a machine that can lose power during save()
PowerNext ==
  \/ \E p \in 1..MaxProfile : SetProfile(p)
  \/ Reset
  \/ Fallback
  \/ ResetPost
  \/ Save
  \/ SaveStart
  \/ SaveWalk
  \/ \E k \in CutPoints(build) : SaveCut(k)
  \/ SaveFinish
  \/ Validate
  \/ Load
  \/ LoadStart
  \/ LoadFields
  \/ LoadCheck
  \/ LoadFinish

PowerSpec == Init /\ [][PowerNext]_vars

\* The steps of a call in progress: the code is sequential and every medium
\* primitive returns, so a call that has started takes its next step
Running ==
  \/ Fallback
  \/ ResetPost
  \/ SaveStart
  \/ SaveWalk
  \/ SaveFinish
  \/ LoadStart
  \/ LoadFields
  \/ LoadCheck
  \/ LoadFinish

\* All operations, each call running to its return
LiveNext ==
  \/ \E p \in 1..LiveProfiles : SetProfile(p)
  \/ \E a \in RecordCells(build), d \in CorruptDeltas : Corrupt(a, d)
  \/ \E a \in GlitchCells, d \in CorruptDeltas : Glitch(a, d)
  \/ \E b2 \in Builds : Reflash(b2)
  \/ \E slot \in -1..MaxSlot : obs.meshops < LiveMeshOps /\ StoreMesh(slot)
  \/ \E slot \in -1..MaxSlot : obs.meshops < LiveMeshOps /\ LoadMesh(slot)
  \/ Save
  \/ Validate
  \/ Load
  \/ Running

\* A machine with EEPROM_AUTO_INIT and one with Unified Bed Leveling
LiveBuilds == { Abl32, Ubl21 }

LiveInit == Init /\ build \in LiveBuilds

\* Control leaves the statement it is at: the step of Running that is enabled
\* at a label is taken (each one moves to another label)
Labels == { "Idle", "Fallback", "ResetPost", "SaveStart", "SaveWalk", "SaveFinish",
            "LoadStart", "LoadWalk", "LoadCheck", "LoadFinish" }

Advance == pc # "Idle" /\ pc' \in Labels \ { pc }

LiveSpec == LiveInit /\ [][LiveNext]_vars /\ WF_pc(Advance)

\* The byte a garbled count cell holds is the stored one plus one of these
GarbleDeltas == { 1, 100, 250 }

\* The operations over a medium on which the stored esteppers byte or a
\* stored grid dimension has been replaced
GarbleNext ==
  \/ \E p \in 1..MaxProfile : SetProfile(p)
  \/ \E a \in CountCells(build), d \in GarbleDeltas : Corrupt(a, d)
  \/ Fallback
  \/ ResetPost
  \/ Save
  \/ SaveStart
  \/ SaveWalk
  \/ SaveFinish
  \/ Validate
  \/ Load
  \/ LoadStart
  \/ LoadFields
  \/ LoadCheck
  \/ LoadFinish

GarbleSpec == Init /\ [][GarbleNext]_vars

\* meshes_start_index() over the record sizes a build can have
RecordSizes == (0 .. SmallSizes) \cup ((65536 - LargeSizes) .. 65535)

IndexInit ==
  /\ build = Ubl21
  /\ live = Defaults(build)
  /\ medium = << >>
  /\ pc = "Idle"
  /\ op = "none"
  /\ validating = FALSE
  /\ eeprom_error = FALSE
  /\ eeprom_index = 0
  /\ working_crc = 0
  /\ stored_crc = 0
  /\ open = 0
  /\ result = FALSE
  /\ \E size \in RecordSizes : obs = [ Obs0 EXCEPT !.size = size ]

StartIndex ==
  /\ pc = "Idle"
  /\ op = "none"
  /\ op' = "meshes_start_index"
  /\ obs' = [ obs EXCEPT !.msi = meshes_start_index_at(obs.size) ]
  /\ UNCHANGED << build, live, medium, pc, validating, eeprom_error, eeprom_index,
                  working_crc, stored_crc, open, result >>

IndexNext == StartIndex

IndexSpec == IndexInit /\ [][IndexNext]_vars

\* A machine with Unified Bed Leveling: the record operations and the slots
MeshBuilds == { Ubl21, Ubl21Wide, Ubl21Tight }

MeshInit ==
  /\ build \in MeshBuilds
  /\ live = Defaults(build)
  /\ medium = << >>
  /\ pc = "Idle"
  /\ op = "none"
  /\ validating = FALSE
  /\ eeprom_error = FALSE
  /\ eeprom_index = 0
  /\ working_crc = 0
  /\ stored_crc = 0
  /\ open = 0
  /\ result = FALSE
  /\ obs = Obs0

MeshNext ==
  \/ \E p \in 1..MaxProfile : SetProfile(p)
  \/ \E slot \in -1..MaxSlot : StoreMesh(slot)
  \/ \E slot \in 0..MaxSlot : StoreMeshFault(slot, 1)
  \/ \E slot \in -1..MaxSlot : LoadMesh(slot)
  \/ \E slot \in -1..MaxSlot : LoadMeshInto(slot)
  \/ \E a \in 0..build.Cap : CorruptSlot(a)
  \/ Save
  \/ SaveStart
  \/ SaveWalk
  \/ SaveFinish
  \/ Validate
  \/ LoadStart
  \/ LoadFields
  \/ LoadCheck
  \/ LoadFinish

MeshSpec == MeshInit /\ [][MeshNext]_vars

------------------------------------------------------------------------------
(* Properties *)

AtReturn(o) == pc = "Idle" /\ op = o
StoredVersion == read_data(medium, EEPROM_OFFSET, 4)
TagMismatch == \E i \in 1..3 : StoredVersion[i] # version[i]
InLoadPass == pc \in { "LoadStart", "LoadWalk", "LoadCheck", "LoadFinish" }

\* The live settings reset() leaves when it runs inside the current operation:
\* the hardcoded default in every field reset() assigns
AfterReset == ResetValues(build, obs.pre)

\* C4: load() runs a committing field walk only after validate() returned
\* true; when validate() returned false no committing walk runs, and load()
\* leaves the live settings as its reset() call sets them.
C4_ValidateThenCommit ==
  /\ [](obs.vres = "fail" => obs.commits = 0)
  /\ [](AtReturn("load") /\ obs.vres = "fail" => ~result /\ live = AfterReset)
  /\ [][obs'.commits > obs.commits => op = "load" /\ obs.vres = "ok"]_vars

C4_Witness ==
  /\ AtReturn("load")
  /\ obs.vres = "fail"
  /\ obs.cause = "crc"
  /\ obs.pre # live
  /\ obs.pre # obs.S

C9_FinalizationHook ==
  /\ [](AtReturn("load") /\ result => obs.pp = 1 /\ obs.commits = 1)
  /\ [](AtReturn("validate") => obs.pp = 0)
  /\ [][InLoadPass /\ (validating \/ obs'.cause \in { "version", "size", "crc" })
          => obs'.pp = obs.pp]_vars

C9_Witness ==
  /\ AtReturn("load")
  /\ result
  /\ obs.pp = 1
  /\ live # Defaults(build)
  /\ live # obs.pre

\* C10: reset() reads and writes no cell of the medium, opens no transaction,
\* always completes, and calls postprocess() exactly once, after every
\* default has been assigned.
C10_Reset ==
  /\ [](op = "reset" /\ pc = "ResetPost" => obs.pp = 0 /\ live = AfterReset)
  /\ [](AtReturn("reset") => obs.pp = 1 /\ live = AfterReset /\ obs.commits = 0)
  /\ [](op = "reset" => pc \in { "Idle", "ResetPost" } /\ open = 0)
  /\ [][op' = "reset" => medium' = medium /\ open' = open]_vars

C10_Witness ==
  /\ AtReturn("reset")
  /\ obs.pp = 1
  /\ obs.pre # live
  /\ obs.saved
  /\ obs.S # live

Body == EEPROM_OFFSET + HeaderSize
CrcRejected == AtReturn("load") /\ obs.vres = "fail" /\ obs.cause = "crc"

C3_ValidateFrame == AtReturn("validate") => live = obs.pre

\* C6 (as stated): after one byte of the body of a saved record has changed,
\* the next load() is rejected with a checksum mismatch and returns false.
C6_ChecksumMismatch ==
  AtReturn("load") /\ obs.dirty >= Body => ~result /\ obs.cause = "crc"

\* C6: after one byte of the body of a saved record has changed, the next
\* load() returns false: the walk ends at another index and the size check
\* rejects the record, or the walk ends at the same index and the checksum
\* comparison rejects it; a changed byte that is no count or dimension is
\* always rejected by the checksum comparison.
C6_SingleByteRejected ==
  /\ [](AtReturn("load") /\ obs.dirty >= Body =>
          /\ ~result
          /\ obs.vres = "fail"
          /\ obs.cause \in { "size", "crc" }
          /\ obs.dirty \notin CountCells(build) => obs.cause = "crc")
  /\ [][pc = "LoadCheck" /\ obs.dirty >= Body =>
          obs'.cause = IF size_error(build, eeprom_index - EEPROM_OFFSET)
                       THEN "size" ELSE "crc"]_vars

C6_Witness ==
  /\ AtReturn("load")
  /\ obs.dirty >= Body
  /\ obs.dirty \notin CountCells(build)
  /\ obs.cause = "crc"
  /\ ~result

\* The settings the record of build b carries agree in l and s
SameSettings(b, l, s) ==
  /\ l.max_acc = s.max_acc /\ l.min_seg = s.min_seg
  /\ l.steps = s.steps /\ l.feed = s.feed /\ l.accel = s.accel
  /\ l.mbl_z_offset = s.mbl_z_offset /\ l.mbl_z = s.mbl_z
  /\ l.probe = s.probe
  /\ l.bgs = s.bgs /\ l.bs = s.bs /\ l.z_values = s.z_values
  /\ b.lev = "UBL" => l.leveling_active = s.leveling_active
  /\ l.storage_slot = s.storage_slot
  /\ l.Kp = s.Kp /\ l.Ki = s.Ki /\ l.Kd = s.Kd
  /\ l.contrast = s.contrast
  /\ l.coord = s.coord
  /\ l.light = s.light

RoundTripDone == AtReturn("load") /\ obs.stage = 3

AfterRoundTrip(b, s) ==
  IF b.lev = "UBL" /\ s.storage_slot < 0 THEN [ s EXCEPT !.leveling_active = 0 ]
  ELSE s

ForeignRecord == obs.saved /\ obs.savedBy # build /\ ~obs.garbled

\* C7: a record saved with N E-stepper channels and loaded by the same build
\* with N+1 channels is accepted; the first N channels keep the saved values
\* and channel N+1 has its default.
C7_GrowthAccepted ==
  AtReturn("load") /\ ForeignRecord /\ build = [ obs.savedBy EXCEPT !.E = @ + 1 ] =>
    /\ result
    /\ \A i \in 1..XYZE_N(obs.savedBy) :
         /\ live.max_acc[i] = obs.S.max_acc[i]
         /\ live.steps[i] = obs.S.steps[i]
         /\ live.feed[i] = obs.S.feed[i]
    /\ live.max_acc[XYZE_N(build)] = _DMA[ALIM(XYZE_N(build), _DMA)]
    /\ live.steps[XYZE_N(build)] = _DASU[ALIM(XYZE_N(build), _DASU)]
    /\ live.feed[XYZE_N(build)] = _DMF[ALIM(XYZE_N(build), _DMF)]

\* C8: a record saved with one grid size and loaded by a build of the same
\* leveling system with another grid size is accepted; the live grid is
\* reset and the settings stored after the grid have their saved values.
C8_GridStaleness ==
  AtReturn("load") /\ ForeignRecord /\ build.lev \in { "MBL", "ABL" }
    /\ build.lev = obs.savedBy.lev
    /\ << build.GX, build.GY >> # << obs.savedBy.GX, obs.savedBy.GY >> =>
      /\ result
      /\ live.mbl_z = reset_bed_level(build, live).mbl_z
      /\ live.z_values = reset_bed_level(build, live).z_values
      /\ live.Kp = obs.S.Kp /\ live.Ki = obs.S.Ki /\ live.Kd = obs.S.Kd
      /\ live.contrast = obs.S.contrast

\* C11: when reset() returns, the live settings are the hardcoded defaults
\* of the build, whatever they were before the call.
C11_ResetOverwritesAll == AtReturn("reset") => live = Defaults(build)

\* C12: when access_start() fails, save() returns false and no cell of the
\* medium has changed: the step that finds the medium unavailable leaves the
\* medium as it was, opens no transaction and ends the operation.
C12_SaveFailsFast ==
  /\ [](AtReturn("save") /\ obs.wfault = "open" => ~result)
  /\ [][pc = "SaveStart" /\ obs'.wfault = "open" =>
          medium' = medium /\ open' = open /\ pc' = "Idle" /\ ~result']_vars

C12_Witness ==
  /\ AtReturn("save")
  /\ obs.wfault = "open"
  /\ obs.saved
  /\ live # obs.S
  /\ StoredVersion = version

\* C13: a save() during which a write to the medium failed returns false.
C13_WriteFailureReported ==
  AtReturn("save") /\ obs.wfault \in { "body", "header" } => ~result

\* C14: in a validate() that directly follows a save() that returned true,
\* the walk ends datasize() cells after EEPROM_OFFSET, the checksum accumulated
\* over the cells after the header equals the stored one, which is the
\* checksum of the cells save() streamed, and validate() returns true.
C14_SaveThenValidate ==
  /\ pc = "LoadCheck" /\ obs.stage = 4 =>
       /\ (eeprom_index - EEPROM_OFFSET) = datasize(build)
       /\ working_crc = stored_crc
       /\ stored_crc = crc16(0, SaveStream(build, obs.S))
  /\ AtReturn("validate") /\ obs.stage = 4 => result /\ obs.cause = "none"

C14_Witness ==
  /\ AtReturn("validate")
  /\ obs.stage = 4
  /\ result
  /\ obs.S # Defaults(build)
  /\ build.lev = "MBL"

\* C15: when load() returns false the live settings are either the ones
\* load() was called with or the ones reset() leaves: no field holds a value
\* read from the rejected record.  (Stated for the builds without LCD
\* contrast, where the validating pass assigns no live field.)
C15_NoMixture ==
  AtReturn("load") /\ ~result /\ ~build.LCD => live = obs.pre \/ live = AfterReset

\* C16: when load() returns false, reset() has run in that call (its
\* postprocess() call is the only one of the call) and the live settings are
\* the ones reset() leaves.
C16_FallbackOnFailure ==
  AtReturn("load") /\ ~result => obs.pp = 1 /\ live = AfterReset

ReturnedFrom(ops) == pc = "Idle" /\ op \in ops
OutOfRange(b, slot) == slot < 0 \/ slot >= calc_num_meshes(b)

\* C17: store_mesh(slot) and load_mesh(slot) with slot < 0 or slot >=
\* calc_num_meshes() report an invalid slot, open no transaction, change no
\* cell of the medium and leave the live mesh (the destination of a load) as
\* it was.
C17_SlotBounds ==
  /\ [](ReturnedFrom({ "store_mesh", "load_mesh" }) =>
          (obs.cause = "slot" <=> OutOfRange(build, obs.slot)))
  /\ [][op' \in { "store_mesh", "load_mesh" } /\ OutOfRange(build, obs'.slot) =>
          medium' = medium /\ live' = live /\ open' = open]_vars

C17_Witness ==
  /\ AtReturn("load_mesh")
  /\ obs.slot = -1
  /\ obs.cause = "slot"
  /\ obs.saved
  /\ live.ubl_z # Zeros(GRID_MAX_POINTS(build))
  /\ Peek(medium, mesh_slot_offset(build, 0)) # ErasedCell

\* C18: store_mesh(i) changes no cell outside slot i, no cell of the main
\* record and no cell of another slot; load_mesh() changes no cell; and
\* validate() returns true exactly when the last save() succeeded, whatever
\* store_mesh() and load_mesh() calls, failing ones included, were made.
C18_SlotIsolation ==
  /\ [][op' = "store_mesh" =>
          \A a \in 0..build.Cap :
            Peek(medium', a) # Peek(medium, a) =>
              /\ ~OutOfRange(build, obs'.slot)
              /\ a \in SlotCells(build, obs'.slot)
              /\ a \notin RecordCells(build)
              /\ \A j \in 0..MaxSlot :
                   j # obs'.slot => a \notin SlotCells(build, j)]_vars
  /\ [][op' = "load_mesh" => medium' = medium]_vars
  /\ [](AtReturn("validate") => (result <=> obs.saved))

\* C19: when a cell of slot i has changed since store_mesh(i), load_mesh(i)
\* reports a failure and does not put the cells of the slot in the live mesh.
C19_SlotChecksum ==
  AtReturn("load_mesh") /\ ~OutOfRange(build, obs.slot)
    /\ obs.dirty \in SlotCells(build, obs.slot) =>
      obs.cause # "none" /\ live.ubl_z = obs.pre.ubl_z

\* The array the last mesh call has read into or written from: the buffer
\* passed to load_mesh(), the live mesh without one
Dest == IF obs.into # << >> THEN obs.into ELSE live.ubl_z

\* C20: slot i starts at capacity - 129 - (i + 1) * slot_size; each slot
\* starts one slot size below the previous one, two different slots share no
\* cell, and these are the cells store_mesh(i) writes and load_mesh(i) reads.
C20_SlotAddressing ==
  /\ \A i \in 0..MaxSlot :
       /\ mesh_slot_offset(build, i) =
            build.Cap - TailReserved - (i + 1) * slot_size(build)
       /\ mesh_slot_offset(build, i + 1) < mesh_slot_offset(build, i)
       /\ mesh_slot_offset(build, i + 1) + slot_size(build) =
            mesh_slot_offset(build, i)
       /\ \A j \in 0..MaxSlot :
            j # i => SlotCells(build, i) \cap SlotCells(build, j) = { }
  /\ ReturnedFrom({ "store_mesh", "load_mesh" }) /\ obs.cause = "none" =>
       Dest =
         read_data(medium,
                   build.Cap - TailReserved - (obs.slot + 1) * slot_size(build),
                   slot_size(build))

C20_Witness ==
  /\ AtReturn("store_mesh")
  /\ obs.cause = "none"
  /\ obs.slot = 1
  /\ obs.meshops = MaxMeshOps
  /\ Peek(medium, mesh_slot_offset(build, 0)) # ErasedCell
  /\ Peek(medium, mesh_slot_offset(build, 0)) # Peek(medium, mesh_slot_offset(build, 1))

\* C21: the slot count store_mesh() and load_mesh() get from
\* calc_num_meshes() is the integer quotient of capacity - 129 -
\* meshes_start_index() by the slot size, for the constants of the current
\* build.
C21_NumMeshes ==
  ReturnedFrom({ "store_mesh", "load_mesh" }) =>
    calc_num_meshes(build) =
      (build.Cap - TailReserved - meshes_start_index(build)) \div slot_size(build)

PassEnds == pc = "LoadFinish"
Consumed == eeprom_index - EEPROM_OFFSET

InSave == pc \in { "SaveStart", "SaveWalk", "SaveFinish" }
Header(m) == read_data(m, EEPROM_OFFSET, HeaderSize)
BodyCells(m, b) == read_data(m, EEPROM_OFFSET + HeaderSize, datasize(b) - HeaderSize)

\* C24: save() writes the version tag and the checksum only in its last
\* step, after the whole body has been streamed and with eeprom_error clear;
\* the checksum it writes is the one accumulated over the body cells alone.
\* Before that step save() changes the header only by writing the "ERR" tag.
C24_HeaderLast ==
  [][InSave /\ Header(medium') # Header(medium) =>
       \/ /\ pc = "SaveStart"
          /\ Header(medium') = ERR \o read_data(medium, EEPROM_OFFSET + 4, 2)
       \/ /\ pc = "SaveFinish"
          /\ ~eeprom_error
          /\ eeprom_index = EEPROM_OFFSET + datasize(build)
          /\ BodyCells(medium, build) = SaveStream(build, live)
          /\ BodyCells(medium', build) = BodyCells(medium, build)
          /\ Header(medium') =
               version \o Bytes16(crc16(0, BodyCells(medium, build)))]_vars

C24_Witness ==
  /\ AtReturn("save")
  /\ result
  /\ Header(medium) = version \o Bytes16(crc16(0, BodyCells(medium, build)))
  /\ live # Defaults(build)
  /\ obs.reflashes = 1

\* C25: from the start of the body write of save() to its header write the
\* stored tag is "ERR", which fails the version gate; a save() cut off in that
\* interval leaves a record that validate() rejects at the version gate, and
\* load() does not commit.
C25_InterruptedSave ==
  /\ pc \in { "SaveWalk", "SaveFinish" } =>
       StoredVersion = ERR /\ ~VersionMatches(StoredVersion)
  /\ obs.torn => StoredVersion = ERR /\ ~VersionMatches(StoredVersion)
  /\ ReturnedFrom({ "validate", "load" }) /\ obs.torn =>
       ~result /\ obs.cause = "version" /\ obs.commits = 0

C25_Witness ==
  /\ AtReturn("validate")
  /\ obs.torn
  /\ ~result
  /\ Peek(medium, EEPROM_OFFSET + 4) # ErasedCell
  /\ Peek(medium, Body + 1) # Peek(medium, Body + 6)
  /\ BodyCells(medium, build) # SaveStream(build, obs.S)

\* The cursor save() has before each EEPROM_WRITE of its field walk
SaveCursors(b, l) ==
  LET f == SaveFields(b, l) IN
    [ k \in 1..Len(f) |->
        EEPROM_OFFSET + HeaderSize + Len(Flatten(SubSeq(f, 1, k - 1), 1)) ]

\* The record on the medium was written by save() of the running build
OwnRecord == obs.saved /\ obs.savedBy = build /\ ~obs.garbled

\* C26: when _load() reads a record written by save() of the same build, the
\* read cursor before each field is the write cursor save() had before that
\* field, and both walks end datasize() cells after EEPROM_OFFSET.
C26_FieldOrder ==
  /\ pc = "SaveFinish" => eeprom_index = EEPROM_OFFSET + datasize(build)
  /\ pc = "LoadCheck" /\ OwnRecord =>
       /\ LoadWalk(build, medium, live, validating, 0).cursors =
            SaveCursors(build, obs.S)
       /\ eeprom_index = EEPROM_OFFSET + datasize(build)

C26_Witness ==
  /\ pc = "LoadCheck"
  /\ OwnRecord
  /\ ~validating
  /\ build.E = 2
  /\ obs.S # Defaults(build)

\* The builds that differ from b only in features without a dimension
GatedVariants(b) ==
  { b2 \in Builds :
      [ b2 EXCEPT !.PIDTEMP = b.PIDTEMP, !.LCD = b.LCD, !.CNC = b.CNC,
                  !.LIGHT = b.LIGHT ] = b }

\* C27: the record save() has written has, in every build that differs only
\* in compiled features, the same size and the same offset for every field.
C27_GatedWidth ==
  AtReturn("save") /\ result =>
    \A b2 \in GatedVariants(build) :
      /\ datasize(b2) = datasize(build)
      /\ SaveCursors(b2, Defaults(b2)) = SaveCursors(build, obs.S)

\* C28: when an operation has returned, every transaction it opened is
\* closed, it has called access_finish() only with a transaction open, and it
\* has called access_start() only with none open.
C28_Transactions == pc = "Idle" => open = 0 /\ ~obs.stray /\ ~obs.nested

\* C29: meshes_start_index() is a multiple of 8, is at least EEPROM_OFFSET +
\* datasize() and at most 32 more, for every record size a uint16_t holds.
C29_StartIndex ==
  op = "meshes_start_index" =>
    /\ obs.msi % 8 = 0
    /\ obs.msi >= EEPROM_OFFSET + obs.size
    /\ obs.msi <= EEPROM_OFFSET + obs.size + 32

\* The protocol state of the spec's state machine. The validating pass of
\* _load() reads (Reading) and checks (Validating); the pass that assigns the
\* live settings is Committing; reset() does not touch the medium.
Phase ==
  IF pc = "Idle" THEN "Idle"
  ELSE IF pc \in { "SaveStart", "SaveWalk" } THEN "Writing"
  ELSE IF pc = "SaveFinish" THEN "Finalizing"
  ELSE IF pc \in { "Fallback", "ResetPost" } THEN "Resetting"
  ELSE IF ~validating THEN "Committing"
  ELSE IF pc \in { "LoadStart", "LoadWalk" } THEN "Reading"
  ELSE "Validating"

Returns == (pc # "Idle") ~> (pc = "Idle")

SavePath == { << "Idle", "Writing" >>, << "Writing", "Finalizing" >>,
              << "Finalizing", "Idle" >> }
ValidatePath == { << "Idle", "Reading" >>, << "Reading", "Validating" >>,
                  << "Validating", "Idle" >> }
LoadPath == ValidatePath \cup { << "Validating", "Committing" >>,
                                << "Committing", "Idle" >> }

\* The same, with the reset() of a rejected load() counted as part of
\* Validating
ProtocolPhase == IF Phase = "Resetting" /\ op = "load" THEN "Validating" ELSE Phase

\* C30 as stated: every call returns to Idle; save() passes Idle, Writing,
\* Finalizing, Idle and load() passes Idle, Reading, Validating, optionally
\* Committing, Idle.
C30_PhasePaths ==
  /\ Returns
  /\ [](op \in { "store_mesh", "load_mesh" } => pc = "Idle")
  /\ [][ProtocolPhase' # ProtocolPhase =>
          /\ op' = "save" => << ProtocolPhase, ProtocolPhase' >> \in SavePath
          /\ op' = "validate" => << ProtocolPhase, ProtocolPhase' >> \in ValidatePath
          /\ op' = "load" => << ProtocolPhase, ProtocolPhase' >> \in LoadPath]_vars

\* The path of load(): Committing follows an accepted record; a rejected
\* one is followed by reset() and, with EEPROM_AUTO_INIT, by a save()
LoadSteps ==
  { << "Idle", "Reading" >>, << "Reading", "Validating" >>,
    << "Committing", "Idle" >>, << "Writing", "Finalizing" >>,
    << "Finalizing", "Idle" >> }
    \cup (IF eeprom_error THEN { << "Validating", "Resetting" >> }
          ELSE { << "Validating", "Committing" >> })
    \cup (IF build.AUTO_INIT THEN { << "Resetting", "Writing" >> }
          ELSE { << "Resetting", "Idle" >> })

\* C30 (amended): every call of save(), validate(), load(), store_mesh() and
\* load_mesh() returns to Idle; save() passes Idle, Writing, Finalizing,
\* Idle; validate() passes Idle, Reading, Validating, Idle; load() passes
\* Idle, Reading, Validating and then Committing, Idle when the record was
\* accepted, and otherwise reset() and, with EEPROM_AUTO_INIT, Writing and
\* Finalizing before Idle.
C30_Termination ==
  /\ Returns
  /\ [](op \in { "store_mesh", "load_mesh" } => pc = "Idle")
  /\ [][Phase' # Phase =>
          /\ op' = "save" => << Phase, Phase' >> \in SavePath
          /\ op' = "validate" => << Phase, Phase' >> \in ValidatePath
          /\ op' = "load" => << Phase, Phase' >> \in LoadSteps]_vars

\* load() has returned after a rejected record, a reset() and the save() of
\* the defaults
C30_Witness ==
  /\ AtReturn("load")
  /\ obs.vres = "fail"
  /\ obs.heal = 1
  /\ build.AUTO_INIT
  /\ StoredVersion = version

\* The widths of the fields _load() reads from medium m, in the order of the
\* walk: counts and grids have the width the stored count bytes give
ReadWidths(b, m) ==
  LET r == LoadWalk(b, m, Blank, TRUE, 0)
      n == XYZ + r.esteppers
      mbl == IF b.lev = "MBL" /\ r.mesh_dims = << b.GX, b.GY >>
             THEN GRID_MAX_POINTS(b) ELSE r.mesh_dims[1] * r.mesh_dims[2]
      abl == IF b.lev = "ABL" /\ r.grid_dims = << b.GX, b.GY >>
             THEN GRID_MAX_POINTS(b) ELSE r.grid_dims[1] * r.grid_dims[2]
  IN << 1, 3 * n + 2, 1, 1, 1, mbl, 3, 1, 1, 2, 2, abl, 1, 1, 3, 1, 1,
        IF b.LIGHT THEN 1 ELSE 0 >>

\* Cursor c moves forward by the widths w, one field after the other, from
\* first to last
Advances(c, w, first, last) ==
  /\ Len(c) = Len(w)
  /\ c[1] = first
  /\ \A k \in 1..(Len(c) - 1) : c[k + 1] = c[k] + w[k]
  /\ last = c[Len(c)] + w[Len(w)]
  /\ \A k \in 1..Len(w) : w[k] >= 0

PidCell(b, m) == LoadWalk(b, m, Blank, TRUE, 0).cursors[15]

\* The record on the medium holds the placeholder of a build without PIDTEMP
StoredPidIsNan == Peek(medium, PidCell(build, medium)) = NAN

\* C32: a committing _load() pass over a record whose stored Kp is NaN leaves
\* the live Kp, Ki and Kd as they were; the cursor has passed the entry and
\* the checksum covers its cells.
C32_NanPid ==
  /\ pc = "LoadCheck" /\ ~validating /\ build.PIDTEMP /\ StoredPidIsNan =>
       /\ live.Kp = obs.pre.Kp /\ live.Ki = obs.pre.Ki /\ live.Kd = obs.pre.Kd
       /\ eeprom_index >= PidCell(build, medium) + 3
       /\ working_crc = crc16(0, read_data(medium, Body, eeprom_index - Body))
  /\ AtReturn("load") /\ result /\ build.PIDTEMP /\ StoredPidIsNan =>
       live.Kp = obs.pre.Kp /\ live.Ki = obs.pre.Ki /\ live.Kd = obs.pre.Kd

\* load() has accepted and committed a record saved without PIDTEMP
C32_Witness ==
  /\ AtReturn("load")
  /\ result
  /\ build.PIDTEMP
  /\ StoredPidIsNan
  /\ obs.commits = 1
  /\ live.Kp = DEFAULT_Kp
  /\ live.max_acc = obs.S.max_acc
  /\ obs.S.max_acc # Defaults(build).max_acc

\* C33: load_mesh(i) after a store_mesh(i) that wrote slot i, with only
\* edits of the live mesh in between, leaves in its destination the mesh that
\* was live at the store; with a buffer as destination the live mesh is not
\* changed.
C33_SlotRoundTrip ==
  /\ [](AtReturn("load_mesh") /\ obs.sslot >= 0 /\ obs.sslot = obs.slot =>
          Dest = obs.sgrid)
  /\ [][op' = "load_mesh" /\ obs'.into # << >> => live' = live]_vars

\* load_mesh(1) has restored the mesh stored before the live mesh was edited
C33_Witness ==
  /\ AtReturn("load_mesh")
  /\ obs.sslot = 1
  /\ obs.slot = 1
  /\ obs.into = << >>
  /\ live.ubl_z = obs.sgrid
  /\ obs.pre.ubl_z # obs.sgrid
  /\ obs.sgrid # Zeros(GRID_MAX_POINTS(build))

LoadLabels == { "LoadStart", "LoadWalk", "LoadCheck", "LoadFinish" }

\* C34: validating is set only inside the _load() pass that validate() runs
\* and is clear when validate() has returned, with either result; the pass
\* load() runs after validate() has accepted the record commits; save(),
\* reset() and the mesh calls never run with the flag set.
C34_ValidatingFlag ==
  /\ validating => pc \in LoadLabels /\ op \in { "validate", "load" }
                     /\ obs.vres = "none" /\ obs.commits = 0
  /\ pc = "Idle" => ~validating
  /\ op = "load" /\ obs.vres = "ok" => ~validating
  /\ op = "load" /\ obs.vres = "ok" /\ pc = "LoadCheck" => obs.commits = 1
  /\ op \in { "save", "reset", "store_mesh", "load_mesh" } => ~validating

\* load() has returned after validate() accepted the record and the
\* following pass committed it
C34_Witness ==
  /\ AtReturn("load")
  /\ result
  /\ obs.vres = "ok"
  /\ obs.commits = 1
  /\ ~validating
  /\ live = obs.S
  /\ obs.pre # obs.S

\* C35: no statement of save() changes a live setting; when save() returns,
\* with true or with false, the live settings are those it was called with.
C35_SaveKeepsLive ==
  /\ [][InSave => (live' = live)]_vars
  /\ [][pc = "Idle" /\ op' = "save" => (live' = live)]_vars
  /\ [](AtReturn("save") => live = obs.pre)

\* save() has written a record of edited settings and returned true
C35_Witness ==
  /\ AtReturn("save")
  /\ result
  /\ live = obs.pre
  /\ live = Profile(build, 2)
  /\ live # Defaults(build)
  /\ BodyCells(medium, build) = SaveStream(build, live)

\* store_mesh() / load_mesh() has returned after it accepted its slot
SlotAccepted == ReturnedFrom({ "store_mesh", "load_mesh" }) /\ obs.cause # "slot"

\* C36: the cells of a slot that store_mesh() / load_mesh() has accepted lie
\* between meshes_start_index() and meshes_end and so outside the main record.
C36_SlotRegion ==
  SlotAccepted =>
    /\ \A a \in SlotCells(build, obs.slot) :
         a >= meshes_start_index(build) /\ a < meshes_end(build)
    /\ SlotCells(build, obs.slot) \cap RecordCells(build) = { }

\* C37: when less than one slot fits between meshes_start_index() and
\* meshes_end, calc_num_meshes() is 0 and store_mesh(0) / load_mesh(0) are
\* rejected as invalid.
C37_NoWrap ==
  ReturnedFrom({ "store_mesh", "load_mesh" })
    /\ meshes_end(build) - meshes_start_index(build) < slot_size(build) =>
      /\ calc_num_meshes(build) = 0
      /\ obs.slot = 0 => obs.cause = "slot"

\* C38: on a medium whose version tag matches, the field walk of _load()
\* reads no cell at or beyond capacity(), whatever the stored esteppers byte
\* and grid dimension bytes hold.
C38_BoundedReads ==
  pc = "LoadCheck" /\ VersionMatches(StoredVersion) => eeprom_index <= build.Cap

\* C39: load() returns true exactly when validate() returned true and the
\* committing _load() pass after it returned true; a load() that fell back
\* to reset() returns false, also when the defaults were saved again
\* without error.
C39_LoadResult ==
  /\ [][pc = "LoadFinish" /\ op = "load" /\ ~validating =>
          (obs.vres = "ok" /\ pc' = "Idle" /\ result' = ~eeprom_error)]_vars
  /\ [][op = "load" /\ pc \in { "ResetPost", "SaveFinish" } /\ pc' = "Idle" =>
          (obs.vres = "fail" /\ result' = FALSE)]_vars
  /\ [](AtReturn("load") =>
          /\ result <=> obs.vres = "ok" /\ obs.commits = 1 /\ ~eeprom_error
          /\ obs.heal = 1 => ~result /\ live = ResetValues(build, live))

C39_Witness ==
  AtReturn("load") /\ obs.vres = "fail" /\ obs.heal = 1 /\ ~eeprom_error /\ ~result

==============================================================================
